---- MODULE Spec2Model ----
(***************************************************************************)
(* State-machine model of qc_portal.py: the models table, the findings     *)
(* table, the image directory tree, the two st.cache_data read caches and  *)
(* the session's search box, driven by the Streamlit button handlers.      *)
(* One action is one user interaction: the handler that fires plus the     *)
(* rest of the script run (and the run that st.rerun() starts).            *)
(*                                                                         *)
(* Text values are sequences of one-character strings, so that str.strip() *)
(* is computed and not assumed.                                            *)
(***************************************************************************)
EXTENDS Integers, Sequences, FiniteSets, TLC

VARIABLES
    models,        \* table models: set of rows [model_no, name, customer, bucket]
    findings,      \* table findings: set of rows over Columns  
    seq,           \* sqlite_sequence value of findings (AUTOINCREMENT)
    dirs,          \* directories existing under IMG_DIR (named by model_no)
    files,         \* image files under IMG_DIR: set of [dir, name]
    fileSeq,       \* number of image files ever written (fresh file names)
    lm,            \* cache of list_models(): {} or {the cached table}
    lf,            \* cache of load_findings(): function <<model_no, days>> -> rows
    search_model,  \* st.session_state["search_model"], the search box text
    hist_days,     \* the "Show findings from" choice, 0 for "All"
    now,           \* the clock read by datetime.utcnow(), in units of 7 days
    last,          \* the message the last interaction showed
    deleted,       \* history: ids removed by delete_finding
    call,          \* history: the last upsert / update call and its arguments
    imp            \* the Import expander: uploaded file, mapping widgets, message

vars == <<models, findings, seq, dirs, files, fileSeq, lm, lf,
          search_model, hist_days, now, last, deleted, call, imp>>

-----------------------------------------------------------------------------
(* Bounds of the model *)

MaxId == 1
MaxFiles == 1
MaxRows == 1
MaxPhotos == 1
MaxRecIds == 2
MaxUpdIds == 2

-----------------------------------------------------------------------------
(* Text *)

E == <<>>
SP == <<" ">>
TxtA == <<"A">>
TxtB == <<"B">>
TxtNan == <<"n", "a", "n">>
NaN == <<"NaN">>
NULL == <<"NULL">>

RECURSIVE LStrip(_)
LStrip(s) == IF s # <<>> /\ Head(s) = " " THEN LStrip(Tail(s)) ELSE s

RECURSIVE RStrip(_)
RStrip(s) == IF s # <<>> /\ s[Len(s)] = " " THEN RStrip(SubSeq(s, 1, Len(s) - 1)) ELSE s

Strip(s) == RStrip(LStrip(s))

PyStr(cell) == IF cell = NaN THEN TxtNan ELSE cell

-----------------------------------------------------------------------------
(* The program state as one record, so that a handler is a composition of  *)
(* the functions it calls.                                                 *)

State == [models |-> models, findings |-> findings, seq |-> seq, dirs |-> dirs,
          files |-> files, fileSeq |-> fileSeq, lm |-> lm, lf |-> lf,
          search_model |-> search_model, hist_days |-> hist_days]

NoCache == [k \in {} |-> {}]

InitState == [models |-> {}, findings |-> {}, seq |-> 0, dirs |-> {},
              files |-> {}, fileSeq |-> 0, lm |-> {}, lf |-> NoCache,
              search_model |-> E, hist_days |-> 0]

-----------------------------------------------------------------------------
(* Model helpers *)

ModelRow(m, n, c, b) == [model_no |-> m, name |-> n, customer |-> c, bucket |-> b]

ModelNos(T) == {r.model_no : r \in T}

SqlUpsertModelNoConflict(T, row) == T \cup {row}

SqlUpsertModel(T, row) ==
    IF row.model_no \in ModelNos(T)
    THEN {IF r.model_no = row.model_no THEN row ELSE r : r \in T}
    ELSE T \cup {row}

list_models_clear(S) == [S EXCEPT !.lm = {}]

list_models(S) == IF S.lm = {} THEN [S EXCEPT !.lm = {S.models}] ELSE S

list_models_value(S) == CHOOSE t \in list_models(S).lm : TRUE

upsert_model_keep(S, model_no, name, customer, bucket) ==
    LET key == Strip(model_no)
        old == {r \in S.models : r.model_no = key}
        keep(new, col) == IF new = E /\ old # {} THEN (CHOOSE r \in old : TRUE)[col] ELSE new
    IN  list_models_clear(
            [S EXCEPT !.models = SqlUpsertModel(S.models,
                ModelRow(key, keep(Strip(name), "name"), keep(Strip(customer), "customer"),
                         keep(Strip(bucket), "bucket")))])

upsert_model(S, model_no, name, customer, bucket) ==
    list_models_clear(
        [S EXCEPT !.models = SqlUpsertModel(S.models,
            ModelRow(Strip(model_no), Strip(name), Strip(customer), Strip(bucket)))])

update_model_meta(S, model_no, name, customer, bucket) ==
    list_models_clear(
        [S EXCEPT !.models =
            {IF r.model_no = Strip(model_no)
             THEN ModelRow(r.model_no, Strip(name), Strip(customer), Strip(bucket))
             ELSE r : r \in S.models}])

rename_model(S, old_arg, new_arg, move_images, move_ok) ==
    LET old_no == Strip(old_arg)
        new_no == Strip(new_arg)
        rows == {r \in S.models : r.model_no = old_no}
        row == CHOOSE r \in rows : TRUE
        T1 == SqlUpsertModel(S.models,
                  ModelRow(new_no, row.name, row.customer, row.bucket))
        F1 == {IF f.model_no = old_no THEN [f EXCEPT !.model_no = new_no] ELSE f
                 : f \in S.findings}
        T2 == {r \in T1 : r.model_no # old_no}
        moved == move_images /\ old_no \in S.dirs /\ new_no \notin S.dirs /\ move_ok
        D1 == IF moved THEN (S.dirs \ {old_no}) \cup {new_no} ELSE S.dirs
        I1 == IF moved
              THEN {IF p.dir = old_no THEN [p EXCEPT !.dir = new_no] ELSE p : p \in S.files}
              ELSE S.files
    IN  IF old_no = E \/ new_no = E \/ old_no = new_no
        THEN [s |-> S, err |-> "Invalid model numbers."]
        ELSE IF rows = {}
        THEN [s |-> S, err |-> "Model not found."]
        ELSE [s |-> list_models_clear(
                      [S EXCEPT !.models = T2, !.findings = F1, !.dirs = D1, !.files = I1]),
              err |-> "None"]

\* The statements rename_model executes on its connection, in order (the
\* criteria table is not modelled: its UPDATE is wrapped in try/except pass).
RenameStatements(old_no, new_no, row) ==
    << [op |-> "upsert", row |-> ModelRow(new_no, row.name, row.customer, row.bucket)],
       [op |-> "repoint", old |-> old_no, new |-> new_no],
       [op |-> "delete", old |-> old_no] >>

SqlExecute(DB, st) ==
    IF st.op = "upsert"
    THEN [DB EXCEPT !.models = SqlUpsertModel(DB.models, st.row)]
    ELSE IF st.op = "repoint"
    THEN [DB EXCEPT !.findings =
            {IF f.model_no = st.old THEN [f EXCEPT !.model_no = st.new] ELSE f
               : f \in DB.findings}]
    ELSE [DB EXCEPT !.models = {r \in DB.models : r.model_no # st.old}]

RECURSIVE ExecuteMany(_, _)
ExecuteMany(DB, stmts) ==
    IF stmts = <<>> THEN DB ELSE ExecuteMany(SqlExecute(DB, Head(stmts)), Tail(stmts))

\* every statement written to the database as it is executed
WithConnAutocommit(DB, stmts, fail_at) ==
    IF fail_at \in 1..Len(stmts)
    THEN [db |-> ExecuteMany(DB, SubSeq(stmts, 1, fail_at - 1)), raised |-> TRUE]
    ELSE [db |-> ExecuteMany(DB, stmts), raised |-> FALSE]

\* `with get_conn() as c: ...; c.commit()`: sqlite3 opens a transaction before
\* the first INSERT/UPDATE/DELETE and the changes reach the database at
\* c.commit(); when statement number fail_at raises (fail_at = 0: none does)
\* the with block is left before the commit and the connection rolls back.
WithConn(DB, stmts, fail_at) ==
    IF fail_at \in 1..Len(stmts)
    THEN [db |-> DB, raised |-> TRUE]
    ELSE [db |-> ExecuteMany(DB, stmts), raised |-> FALSE]

\* rename_model with the outcome of each statement as an input: an exception
\* raised inside the with block leaves the function before the directory
\* move and before list_models.clear().
rename_model_tx(S, old_arg, new_arg, move_images, move_ok, fail_at) ==
    LET old_no == Strip(old_arg)
        new_no == Strip(new_arg)
        rows == {r \in S.models : r.model_no = old_no}
        row == CHOOSE r \in rows : TRUE
        tx == WithConn([models |-> S.models, findings |-> S.findings],
                       RenameStatements(old_no, new_no, row), fail_at)
        moved == move_images /\ old_no \in S.dirs /\ new_no \notin S.dirs /\ move_ok
        D1 == IF moved THEN (S.dirs \ {old_no}) \cup {new_no} ELSE S.dirs
        I1 == IF moved
              THEN {IF p.dir = old_no THEN [p EXCEPT !.dir = new_no] ELSE p : p \in S.files}
              ELSE S.files
        S1 == [S EXCEPT !.models = tx.db.models, !.findings = tx.db.findings]
    IN  IF old_no = E \/ new_no = E \/ old_no = new_no
        THEN [s |-> S, err |-> "Invalid model numbers.", raised |-> FALSE]
        ELSE IF rows = {}
        THEN [s |-> S, err |-> "Model not found.", raised |-> FALSE]
        ELSE IF tx.raised
        THEN [s |-> S1, err |-> "exception", raised |-> TRUE]
        ELSE [s |-> list_models_clear([S1 EXCEPT !.dirs = D1, !.files = I1]),
              err |-> "None", raised |-> FALSE]

delete_model_all(S, model_no, delete_images, delete_findings) ==
    LET F1 == IF delete_findings
              THEN {f \in S.findings : f.model_no # model_no}
              ELSE S.findings
        T1 == {r \in S.models : r.model_no # model_no}
        wipe == delete_images /\ model_no \in S.dirs
        I1 == IF wipe THEN {p \in S.files : p.dir # model_no} ELSE S.files
        D1 == IF wipe THEN S.dirs \ {model_no} ELSE S.dirs
    IN  list_models_clear(
            [S EXCEPT !.models = T1, !.findings = F1, !.files = I1, !.dirs = D1])

-----------------------------------------------------------------------------
(* Findings helpers *)

Columns == {"id", "created_at", "model_no", "station", "capa_date", "reply_date",
            "days_to_reply", "delay_days", "image_path", "extra"}

IntColumns == {"days_to_reply", "delay_days"}

\* SQL NULL: a text column holds NULL, an integer column holds {} (else {n})
NullOf(c) == IF c \in IntColumns THEN {} ELSE NULL

EmptyPath == [dir |-> E, name |-> 0]

Ascii == <<" ", "0", "1", "2", "3", "4", "5", "6", "7", "8", "9", "A", "B", "a", "n", "x">>

Ord(ch) == CHOOSE i \in 1..Len(Ascii) : Ascii[i] = ch

RECURSIVE TextGeq(_, _)
TextGeq(a, b) ==
    IF b = <<>> THEN TRUE
    ELSE IF a = <<>> THEN FALSE
    ELSE IF Head(a) = Head(b) THEN TextGeq(Tail(a), Tail(b))
    ELSE Ord(Head(a)) > Ord(Head(b))

Digits == <<"0", "1", "2", "3", "4", "5", "6", "7", "8", "9">>

isoformat(n) == <<Digits[n + 1]>>

IsIso(t) == Len(t) = 1 /\ \E i \in 1..Len(Digits) : Digits[i] = t[1]

fromisoformat(t) == (CHOOSE i \in 1..Len(Digits) : Digits[i] = t[1]) - 1

RECURSIVE SortAsc(_)
SortAsc(F) ==
    IF F = {} THEN <<>>
    ELSE LET low == CHOOSE f \in F : \A g \in F : f.id <= g.id
         IN  <<low>> \o SortAsc(F \ {low})

RECURSIVE SortDesc(_)
SortDesc(F) ==
    IF F = {} THEN <<>>
    ELSE LET top == CHOOSE f \in F : \A g \in F : g.id <= f.id
         IN  <<top>> \o SortDesc(F \ {top})

SqlSelectFindings(F, model_no, days, clock) ==
    SortDesc({f \in F : /\ f.model_no = model_no
                        /\ (days # 0 => TextGeq(f.created_at, isoformat(clock - days)))})

load_findings_clear(S) == [S EXCEPT !.lf = NoCache]

load_findings(S, model_no, days, clock) ==
    LET key == <<model_no, days>>
    IN  IF key \in DOMAIN S.lf THEN S
        ELSE [S EXCEPT !.lf = [k \in DOMAIN S.lf \cup {key} |->
                 IF k = key THEN SqlSelectFindings(S.findings, model_no, days, clock)
                 ELSE S.lf[k]]]

load_findings_value(S, model_no, days, clock) ==
    load_findings(S, model_no, days, clock).lf[<<model_no, days>>]

save_image(S, model_no, readable) ==
    LET S1 == [S EXCEPT !.dirs = S.dirs \cup {model_no}]
        path == [dir |-> model_no, name |-> S.fileSeq + 1]
    IN  IF readable
        THEN [s |-> [S1 EXCEPT !.files = S1.files \cup {path}, !.fileSeq = S.fileSeq + 1],
              rel |-> path, raised |-> FALSE]
        ELSE [s |-> S1, rel |-> EmptyPath, raised |-> TRUE]

NextIdReuse(S) ==
    LET ids == {f.id : f \in S.findings} \cup {0}
    IN  1 + (CHOOSE i \in ids : \A j \in ids : j <= i)

NextId(S) == S.seq + 1

insert_finding(S, payload) ==
    LET id == NextId(S)
        row == [c \in Columns |->
                  IF c = "id" THEN id
                  ELSE IF c \in DOMAIN payload THEN payload[c] ELSE NullOf(c)]
    IN  [S EXCEPT !.findings = S.findings \cup {row},
                  !.seq = IF id > S.seq THEN id ELSE S.seq]

update_finding_replace(S, fid, payload) ==
    IF DOMAIN payload = {} THEN S
    ELSE [S EXCEPT !.findings =
            {IF f.id = fid
             THEN [c \in Columns |-> IF c \in DOMAIN payload THEN payload[c]
                                     ELSE IF c = "id" THEN f[c] ELSE NullOf(c)]
             ELSE f : f \in S.findings}]

update_finding(S, fid, payload) ==
    IF DOMAIN payload = {} THEN S
    ELSE [S EXCEPT !.findings =
            {IF f.id = fid
             THEN [c \in Columns |-> IF c \in DOMAIN payload THEN payload[c] ELSE f[c]]
             ELSE f : f \in S.findings}]

RECURSIVE SeqToSet(_)
SeqToSet(q) == IF q = <<>> THEN {} ELSE {Head(q)} \cup SeqToSet(Tail(q))

delete_finding(S, fid, delete_images) ==
    LET rows == {f \in S.findings : f.id = fid}
        row == CHOOSE f \in rows : TRUE
        paths == (IF row.image_path # EmptyPath THEN {row.image_path} ELSE {})
                 \cup SeqToSet(row.extra.images)
    IN  IF rows = {} THEN S
        ELSE [S EXCEPT !.findings = S.findings \ rows,
                       !.files = IF delete_images THEN S.files \ paths ELSE S.files]

-----------------------------------------------------------------------------
(* Inputs the user can give *)

ModelNoInputs == {E, SP, TxtA, <<"B", " ">>}

SearchInputs == {E, TxtA, <<"B", " ">>}

AttrInputs == {<<E, E, E>>, <<<<" ", "n">>, <<"c">>, <<"f">>>>}

DaysInputs == {0}

RECURSIVE SeqsUpTo(_, _)
SeqsUpTo(V, n) ==
    IF n = 0 THEN {<<>>}
    ELSE LET shorter == SeqsUpTo(V, n - 1)
         IN  shorter \cup {Append(q, v) : q \in {x \in shorter : Len(x) = n - 1}, v \in V}

UploadInputs == SeqsUpTo(BOOLEAN, MaxPhotos)

RowInputs == [model : {NaN, SP, TxtA}, date : {NaN, <<"0">>}]

FileInputs == SeqsUpTo(RowInputs, MaxRows) \ {<<>>}

FormInputs == [station : {<<"x">>}, capa_date : {<<"1">>}, reply_date : {<<"2">>}]

-----------------------------------------------------------------------------
(* The script run: sidebar, then the main area (search and history) *)

MainArea(S, clock) ==
    LET S1 == list_models(S)
        models_df == list_models_value(S1)
        query == S1.search_model
        model_no == Strip(query)
        S2 == IF model_no # E /\ model_no \notin ModelNos(models_df)
              THEN upsert_model(S1, model_no, E, E, E)
              ELSE S1
        S3 == list_models(S2)
    IN  IF query = E THEN S1
        ELSE load_findings(S3, model_no, S3.hist_days, clock)

ScriptRun(S, clock) == MainArea(list_models(S), clock)

\* the rows the Past Findings list shows once the script has run
PastFindings(S, clock) ==
    IF S.search_model = E THEN <<>>
    ELSE load_findings_value(S, Strip(S.search_model), S.hist_days, clock)

Ids(rows) == {rows[i].id : i \in 1..Len(rows)}

All == <<"A", "l", "l">>

\* the choices of the "Filter: Station" selectbox
StationOptions(rows) ==
    {All} \cup {rows[i].station : i \in {j \in 1..Len(rows) :
                    rows[j].station # NULL /\ Strip(rows[j].station) # E}}

\* view = fdf.copy(); view = view[view["station"] == f_station]
ViewFilter(rows, f_station) ==
    IF f_station = All THEN rows
    ELSE SelectSeq(rows, LAMBDA r : r.station = f_station)

Commit(S, l, d) ==
    /\ models' = S.models
    /\ findings' = S.findings
    /\ seq' = S.seq
    /\ dirs' = S.dirs
    /\ files' = S.files
    /\ fileSeq' = S.fileSeq
    /\ lm' = S.lm
    /\ lf' = S.lf
    /\ search_model' = S.search_model
    /\ hist_days' = S.hist_days
    /\ last' = l
    /\ deleted' = d
    /\ now' = now

-----------------------------------------------------------------------------
(* Sidebar handlers *)

SaveModel(m_no, attrs) ==
    LET S1 == IF Strip(m_no) # E
              THEN upsert_model(State, m_no, attrs[1], attrs[2], attrs[3])
              ELSE State
        res == IF Strip(m_no) # E THEN "Model saved" ELSE "Please enter a model number"
    IN  Commit(ScriptRun(S1, now),
               res, deleted)

SaveMeta(attrs) ==
    LET S1 == list_models(State)
        sel == S1.search_model
        S2 == list_models_clear(update_model_meta(S1, sel, attrs[1], attrs[2], attrs[3]))
    IN  /\ search_model # E
        /\ Commit(MainArea(S2, now),
                  "Saved.", deleted)

RenameModel(new_no, move_ok) ==
    LET S1 == list_models(State)
        sel == S1.search_model
        r == rename_model(S1, sel, new_no, TRUE, move_ok)
        S2 == [r.s EXCEPT !.search_model = new_no]
    IN  /\ search_model # E
        /\ IF r.err # "None"
           THEN Commit(MainArea(r.s, now),
                       r.err, deleted)
           ELSE Commit(ScriptRun(S2, now),
                       "Renamed", deleted)

\* the Rename button when a statement of rename_model may raise: the uncaught
\* exception ends the script run where it is raised
RenameModelTx(new_no, move_ok, fail_at) ==
    LET S1 == list_models(State)
        sel == S1.search_model
        r == rename_model_tx(S1, sel, new_no, TRUE, move_ok, fail_at)
        S2 == [r.s EXCEPT !.search_model = new_no]
    IN  /\ search_model # E
        /\ IF r.raised
           THEN Commit(r.s, "exception", deleted)
           ELSE IF r.err # "None"
           THEN Commit(MainArea(r.s, now),
                       r.err, deleted)
           ELSE Commit(ScriptRun(S2, now),
                       "Renamed", deleted)

DeleteModel(del_find, del_imgs) ==
    LET S1 == list_models(State)
        sel == S1.search_model
        S2 == delete_model_all(S1, sel, del_imgs, del_find)
        S3 == [S2 EXCEPT !.search_model = E]
    IN  /\ search_model # E
        /\ Commit(ScriptRun(S3, now),
                  "Deleted model", deleted)

RECURSIVE SaveImages(_, _, _)
SaveImages(S, model_no, ups) ==
    IF ups = <<>> THEN [s |-> S, rels |-> <<>>, raised |-> FALSE]
    ELSE LET one == save_image(S, model_no, Head(ups))
             rest == SaveImages(one.s, model_no, Tail(ups))
         IN  IF one.raised THEN [s |-> one.s, rels |-> <<>>, raised |-> TRUE]
             ELSE [s |-> rest.s, rels |-> <<one.rel>> \o rest.rels, raised |-> rest.raised]

SaveFinding(rep_model, station, up_img) ==
    LET S0 == list_models(State)
        model_no == Strip(rep_model)
        S1 == upsert_model(S0, model_no, E, E, E)
        imgs == SaveImages(S1, model_no, up_img)
        payload_db == [created_at |-> isoformat(now), model_no |-> model_no,
                       station |-> station,
                       image_path |-> imgs.rels[1], extra |-> [images |-> imgs.rels]]
        S2 == load_findings_clear(insert_finding(imgs.s, payload_db))
        S3 == [S2 EXCEPT !.search_model = model_no]
            IN  IF model_no = E
        THEN Commit(MainArea(S0, now), "Please provide a Model/Part No.", deleted)
        ELSE IF up_img = <<>>
        THEN Commit(MainArea(S0, now), "Please attach at least one photo", deleted)
        ELSE IF imgs.raised
        THEN Commit(imgs.s, "exception", deleted)
        ELSE Commit(ScriptRun(S3, now), "Finding saved", deleted)

(* Import data (Excel/CSV) *)

\* A cell of the uploaded table is NaN (empty), a text, or, for a date cell of
\* an Excel sheet, a pd.Timestamp object.
Timestamp(n) == <<"Timestamp", Digits[n + 1]>>

IsTimestamp(cell) == Len(cell) = 2 /\ cell[1] = "Timestamp"

\* str(cell)
CellStr(cell) == IF IsTimestamp(cell) THEN <<cell[2]>> ELSE PyStr(cell)

\* pd.to_datetime(cell) returns (TRUE) or raises (FALSE)
to_datetime_ok(cell) == IsTimestamp(cell) \/ IsIso(cell)

\* sqlite3 binds None, int, float, str and bytes; any other object makes
\* c.execute raise
Bindable(v) == ~IsTimestamp(v)

RequiredFields == {"model_no", "nonconformity_category", "description"}

NoMissing(map_required) == {}

\* the required fields still at "-- select --"
MissingFields(map_required) == RequiredFields \ map_required

NoFile == [name |-> "", readable |-> TRUE, rows |-> <<>>]

read_file_any(file) == [ok |-> TRUE, rows |-> file.rows]

\* pd.read_csv / pd.read_excel: the table, or an exception that ends the run
read_file(file) == [ok |-> file.readable, rows |-> file.rows]

\* the mapping selectboxes and the Import button are rendered
ControlsShown(I) == I.file # NoFile /\ read_file(I.file).ok

InitImp == [file |-> NoFile, map |-> {}, mc |-> FALSE, report |-> {}]

\* Streamlit drops the state of the widgets a run did not render, and keeps
\* the state of a widget rendered again with the same key and options.
WidgetState(I) == IF ControlsShown(I) THEN I ELSE [I EXCEPT !.map = {}, !.mc = FALSE]

\* one script run with the file the uploader holds: an exception of the read
\* ends the run before the main area
ImportScriptRun(S, I, clock) ==
    IF I.file # NoFile /\ ~read_file(I.file).ok THEN list_models(S)
    ELSE ScriptRun(S, clock)

ImportRow(S, row, map_created, clock) ==
    LET model_no == Strip(PyStr(row.model))
        S1 == upsert_model(S, model_no, E, E, E)
        cell == IF map_created THEN row.date ELSE E
        normalized == IF Strip(CellStr(cell)) # E /\ CellStr(cell) # TxtNan
                      THEN IF to_datetime_ok(cell) THEN CellStr(cell) ELSE isoformat(clock)
                      ELSE isoformat(clock)
        raw == IF row.date = NaN THEN E ELSE row.date
        payload == [created_at |-> IF map_created THEN raw ELSE normalized,
                    model_no |-> model_no,
                    image_path |-> EmptyPath, extra |-> [images |-> <<>>]]
    IN  IF model_no = E THEN [s |-> S, inserted |-> 0]
        ELSE IF ~Bindable(payload.created_at) THEN [s |-> S1, inserted |-> 0]
        ELSE [s |-> insert_finding(S1, payload), inserted |-> 1]

RECURSIVE ImportRows(_, _, _, _)
ImportRows(S, rows, map_created, clock) ==
    IF rows = <<>> THEN [s |-> S, inserted |-> 0]
    ELSE LET one == ImportRow(S, Head(rows), map_created, clock)
             rest == ImportRows(one.s, Tail(rows), map_created, clock)
         IN  [s |-> rest.s, inserted |-> one.inserted + rest.inserted]

ImportFile(rows, mapped, map_created) ==
    LET S0 == list_models(State)
        done == ImportRows(S0, rows, map_created, now)
        S1 == load_findings_clear(done.s)
    IN  IF ~mapped
        THEN Commit(MainArea(S0, now), "Please map required fields", deleted)
        ELSE Commit(MainArea(S1, now), "Imported", deleted)

\* what st.success(f"Imported {inserted} row(s).") shows
ImportMessage(S, rows, map_created, clock) ==
    [inserted |-> ImportRows(list_models(S), rows, map_created, clock).inserted]

\* A file dropped on the uploader; when the uploader (accept_multiple_files
\* unset) already holds a file, the new file replaces it within one run.
UploadFile(file) ==
    LET I == WidgetState([imp EXCEPT !.file = file, !.report = {}])
    IN  /\ file # imp.file
        /\ imp' = I
        /\ Commit(ImportScriptRun(State, I, now),
                  IF read_file(file).ok THEN "Detected columns" ELSE "exception", deleted)

RemoveFile ==
    LET I == WidgetState([imp EXCEPT !.file = NoFile, !.report = {}])
    IN  /\ imp.file # NoFile
        /\ imp' = I
        /\ Commit(ScriptRun(State, now), "None", deleted)

SelectRequired(k) ==
    /\ ControlsShown(imp)
    /\ imp' = [imp EXCEPT !.map = IF k \in imp.map THEN imp.map \ {k} ELSE imp.map \cup {k},
                          !.report = {}]
    /\ Commit(ScriptRun(State, now), "Detected columns", deleted)

SelectCreatedAt ==
    /\ ControlsShown(imp)
    /\ imp' = [imp EXCEPT !.mc = ~imp.mc, !.report = {}]
    /\ Commit(ScriptRun(State, now), "Detected columns", deleted)

ImportClick ==
    LET rows == read_file(imp.file).rows
        mapped == MissingFields(imp.map) = {}
    IN  /\ ControlsShown(imp)
        /\ ImportFile(rows, mapped, imp.mc)
        /\ imp' = [imp EXCEPT !.report =
                      IF mapped THEN {ImportMessage(State, rows, imp.mc, now)} ELSE {}]

-----------------------------------------------------------------------------
(* Main area handlers *)

Search(query, days) ==
    LET S1 == [State EXCEPT !.search_model = query, !.hist_days = days]
    IN  /\ <<query, days>> # <<search_model, hist_days>>
        /\ Commit(ScriptRun(S1, now),
                  "shown", deleted)

ConfirmDelete(rid, del_imgs) ==
    LET S1 == ScriptRun(State, now)
        S2 == load_findings_clear(delete_finding(S1, rid, del_imgs))
    IN  /\ rid \in Ids(PastFindings(S1, now))
        /\ Commit(ScriptRun(S2, now),
                  "deleted",
                  deleted \cup {rid})

EditPayload(form, clock) ==
    LET base == [station |-> form.station, capa_date |-> form.capa_date,
                 reply_date |-> form.reply_date]
        both == form.capa_date # E /\ form.reply_date # E
        only == form.capa_date # E /\ form.reply_date = E
    IN  IF both /\ IsIso(form.capa_date) /\ IsIso(form.reply_date)
        THEN base @@ [days_to_reply |->
                        {fromisoformat(form.reply_date) - fromisoformat(form.capa_date)}]
        ELSE IF only /\ IsIso(form.capa_date)
        THEN base @@ [delay_days |-> {clock - fromisoformat(form.capa_date)}]
        ELSE base

SaveChanges(rid, form) ==
    LET S1 == ScriptRun(State, now)
        S2 == load_findings_clear(update_finding(S1, rid, EditPayload(form, now)))
    IN  /\ rid \in Ids(PastFindings(S1, now))
        /\ Commit(ScriptRun(S2, now),
                  "Updated", deleted)

-----------------------------------------------------------------------------

Init ==
    /\ models = InitState.models
    /\ findings = InitState.findings
    /\ seq = InitState.seq
    /\ dirs = InitState.dirs
    /\ files = InitState.files
    /\ fileSeq = InitState.fileSeq
    /\ lm = InitState.lm
    /\ lf = InitState.lf
    /\ search_model = InitState.search_model
    /\ hist_days = InitState.hist_days
    /\ now = 1
    /\ last = "None"
    /\ deleted = {}
    /\ call = [op |-> "none", args |-> <<>>, times |-> 0, before |-> {}]
    /\ imp = InitImp

(* Spec: every handler, at most MaxId findings ever inserted *)

DoSaveModel == (\E m \in ModelNoInputs, a \in AttrInputs : SaveModel(m, a)) /\ UNCHANGED <<call, imp>>

DoSaveMeta == (\E a \in AttrInputs : SaveMeta(a)) /\ UNCHANGED <<call, imp>>

DoRenameModel ==
    (\E n \in ModelNoInputs, ok \in BOOLEAN : RenameModel(n, ok)) /\ UNCHANGED <<call, imp>>

DoDeleteModel ==
    (\E df \in BOOLEAN, di \in BOOLEAN : DeleteModel(df, di)) /\ UNCHANGED <<call, imp>>

DoSaveFinding ==
    /\ seq < MaxId
    /\ \E m \in ModelNoInputs, up \in UploadInputs :
          fileSeq + Len(up) <= MaxFiles /\ SaveFinding(m, <<"a">>, up)
    /\ UNCHANGED <<call, imp>>

DoImportFile ==
    /\ \E rows \in FileInputs, mapped \in BOOLEAN, mc \in BOOLEAN :
          seq + Len(rows) <= MaxId /\ ImportFile(rows, mapped, mc)
    /\ UNCHANGED <<call, imp>>

DoSearch == (\E q \in SearchInputs, d \in DaysInputs : Search(q, d)) /\ UNCHANGED <<call, imp>>

DoConfirmDelete ==
    (\E rid \in 1..MaxId, di \in BOOLEAN : ConfirmDelete(rid, di)) /\ UNCHANGED <<call, imp>>

DoSaveChanges ==
    (\E rid \in 1..MaxId, form \in FormInputs : SaveChanges(rid, form)) /\ UNCHANGED <<call, imp>>

Next ==
    \/ DoSaveModel
    \/ DoSaveMeta
    \/ DoRenameModel
    \/ DoDeleteModel
    \/ DoSaveFinding
    \/ DoImportFile
    \/ DoSearch
    \/ DoConfirmDelete
    \/ DoSaveChanges

Spec == Init /\ [][Next]_vars

-----------------------------------------------------------------------------
(* Claims checked under Spec *)

\* C1: every finding row's model_no is the model_no of some row of models,
\* in every reachable state (also after delete_model_all with
\* delete_findings=False).
C1_ReferentialIntegrity == \A f \in findings : f.model_no \in ModelNos(models)

\* C2: no stale cache entry survives a mutation: every cached
\* load_findings(model_no, days=None) and the cached list_models() equal the
\* same query run directly against the store.
C2_CacheCoherent ==
    /\ \A key \in DOMAIN lf :
          key[2] = 0 => lf[key] = SqlSelectFindings(findings, key[1], 0, now)
    /\ lm # {} => lm = {models}

\* C3: after a rename that succeeded, the history shown for new holds exactly
\* the findings old owned before the rename, and a search by old returns none.
C3_RenameThenSearch ==
    [][last' = "Renamed" =>
         LET old_no == Strip(search_model)
             new_no == Strip(search_model')
         IN  /\ Ids(PastFindings(State, now)') =
                    {f.id : f \in {g \in findings : g.model_no = old_no}}
             /\ load_findings_value(State, old_no, 0, now)' = <<>>]_vars

ConflictingTarget(old_arg, new_arg) ==
    LET old_no == Strip(old_arg)
        new_no == Strip(new_arg)
    IN  /\ old_no # E /\ new_no # E /\ old_no # new_no
        /\ \E o \in models, n \in models :
              /\ o.model_no = old_no
              /\ n.model_no = new_no
              /\ <<n.name, n.customer, n.bucket>> # <<o.name, o.customer, o.bucket>>

\* C4: a rename onto a different existing model with different
\* name/customer/folder fails with an error and leaves the models table, every
\* finding and the image store as they were.
C4_RenameConflictAborts ==
    [][\A n \in ModelNoInputs, ok \in BOOLEAN :
          (RenameModel(n, ok) /\ ConflictingTarget(search_model, n)) =>
              /\ last' # "Renamed"
              /\ models' = models
              /\ findings' = findings
              /\ files' = files
              /\ dirs' = dirs]_vars

\* C5: deleting a model without its findings while a finding references it is
\* aborted: neither the model row nor any finding is removed or changed.
C5_DeleteBlockedByDependents ==
    [][\A di \in BOOLEAN :
          (DeleteModel(FALSE, di) /\ \E f \in findings : f.model_no = search_model) =>
              /\ last' # "Deleted model"
              /\ models' = models
              /\ findings' = findings]_vars

BlankCell(cell) == cell = NaN \/ Strip(cell) = E

NothingWritten ==
    /\ findings' = findings
    /\ models' = models
    /\ files' = files
    /\ dirs' = dirs

\* C8: an insert with an empty or blank model_no writes nothing, for a manual
\* save and for every import row, and no stored finding has an empty model_no.
C8_EmptyModelRejected ==
    [][/\ \A m \in ModelNoInputs, up \in UploadInputs :
             (SaveFinding(m, <<"a">>, up) /\ Strip(m) = E) => NothingWritten
       /\ \A rows \in FileInputs, mc \in BOOLEAN :
             (ImportFile(rows, TRUE, mc) /\ \A i \in 1..Len(rows) : BlankCell(rows[i].model))
                 => NothingWritten
       /\ \A f \in findings' : f.model_no # E]_vars

\* C11: when storing an uploaded image fails during Save finding, the finding
\* is still written, with its image field left empty.
C11_BlobFailureKeepsRecord ==
    [][\A m \in ModelNoInputs, up \in UploadInputs :
          (/\ SaveFinding(m, <<"a">>, up)
           /\ Strip(m) # E
           /\ \E i \in 1..Len(up) : ~up[i]) =>
              \E f \in findings' \ findings :
                  f.model_no = Strip(m) /\ f.image_path = EmptyPath]_vars

\* the rows of models registered under model_no are still there, unchanged
RegisteredKept(model_no) ==
    \A r \in models : r.model_no = model_no => r \in models'

\* C22: saving a finding, or importing a row, for a model_no that is already
\* registered leaves that model's name, customer and folder unchanged.
C22_RegisteredModelKept ==
    [][/\ \A m \in ModelNoInputs, up \in UploadInputs :
             SaveFinding(m, <<"a">>, up) => RegisteredKept(Strip(m))
       /\ \A rows \in FileInputs, mc \in BOOLEAN :
             ImportFile(rows, TRUE, mc) =>
                 \A i \in 1..Len(rows) : RegisteredKept(Strip(PyStr(rows[i].model)))]_vars

\* C23: a search by model number, registered or not, adds, changes and
\* removes no row of the models table and of the findings table.
C23_SearchReadOnly ==
    [][\A q \in SearchInputs, d \in DaysInputs :
          Search(q, d) => models' = models /\ findings' = findings]_vars

\* the image files a finding refers to: image_path and the images list of extra
ImageRefs(f) ==
    (IF f.image_path # EmptyPath THEN {f.image_path} ELSE {}) \cup SeqToSet(f.extra.images)

\* C24: in every reachable state every image reference stored on a finding
\* names a file that exists under the image directory (also after a rename
\* moved the directory, and after a model was deleted with its images but
\* without its findings).
C24_BlobReferencesExist == \A f \in findings : ImageRefs(f) \subseteq files

-----------------------------------------------------------------------------
(* SpecUpsert: the Add/Update Model handler alone, with every combination *)
(* of padded and empty attribute values                                    *)

UpsertAttrInputs == {<<n, c, b>> : n \in {E, <<"n">>, <<" ", "n">>},
                                   c \in {E, <<"c">>}, b \in {E, <<"f", " ">>}}

UpsertCall ==
    \E m \in ModelNoInputs, a \in UpsertAttrInputs :
        /\ SaveModel(m, a)
        /\ call' = [op |-> IF Strip(m) # E THEN "upsert" ELSE "rejected",
                    args |-> <<m, a>>,
                    times |-> IF call.op = "upsert" /\ call.args = <<m, a>> THEN 2 ELSE 1,
                    before |-> {r \in models : r.model_no = Strip(m)}]
        /\ UNCHANGED imp

NextUpsert == UpsertCall

SpecUpsert == Init /\ [][NextUpsert]_vars

\* C6: an upsert repeated with identical arguments leaves exactly one row for
\* that model_no and the models table as it was after the first upsert.
C6_UpsertIdempotent ==
    [][(call.op = "upsert" /\ call'.op = "upsert" /\ call'.args = call.args) =>
          /\ models' = models
          /\ Cardinality({r \in models' : r.model_no = Strip(call'.args[1])}) = 1]_vars

C6_Witness ==
    /\ call.op = "upsert"
    /\ call.times = 2
    /\ Cardinality({r \in models : r.model_no = Strip(call.args[1])}) = 1

\* C7 (as claimed): after an upsert the row for model_no holds exactly the
\* three supplied attribute values.
C7_StoresSuppliedValues ==
    [][call'.op = "upsert" =>
          \E r \in models' :
              r = ModelRow(call'.args[1], call'.args[2][1], call'.args[2][2],
                           call'.args[2][3])]_vars

\* C7 (amended): after an upsert the one row for the stripped model_no holds
\* the three supplied values with leading and trailing whitespace removed,
\* whether or not the model existed (an empty value clears the stored one),
\* and no other row changes.
C7_FullReplaceStripped ==
    [][call'.op = "upsert" =>
          LET key == Strip(call'.args[1])
              a == call'.args[2]
          IN  /\ {r \in models' : r.model_no = key} =
                     {ModelRow(key, Strip(a[1]), Strip(a[2]), Strip(a[3]))}
              /\ {r \in models' : r.model_no # key} = {r \in models : r.model_no # key}]_vars

C7_Witness ==
    /\ call.op = "upsert"
    /\ call.args[2][1] = E
    /\ \E b \in call.before : b.name # E
    /\ \E r \in models : r.model_no = Strip(call.args[1]) /\ r.name = E
    /\ \E r \in models : r.model_no # Strip(call.args[1])

-----------------------------------------------------------------------------
(* SpecRecords: the handlers that insert, edit, remove or re-own findings  *)
(* and the history search, one model number typed, at most MaxRecIds       *)
(* findings ever inserted                                                  *)

RecRenameModel == (\E ok \in BOOLEAN : RenameModel(TxtB, ok)) /\ UNCHANGED <<call, imp>>

RecDeleteModel == (\E df \in BOOLEAN : DeleteModel(df, TRUE)) /\ UNCHANGED <<call, imp>>

RecSaveFinding ==
    /\ seq < MaxRecIds
    /\ SaveFinding(TxtA, <<"a">>, <<TRUE>>)
    /\ UNCHANGED <<call, imp>>

RecImportFile ==
    /\ seq < MaxRecIds
    /\ ImportFile(<<[model |-> TxtA, date |-> NaN]>>, TRUE, FALSE)
    /\ UNCHANGED <<call, imp>>

RecSearch == (\E q \in {TxtA, TxtB} : Search(q, 0)) /\ UNCHANGED <<call, imp>>

RecConfirmDelete ==
    (\E rid \in 1..MaxRecIds, di \in BOOLEAN : ConfirmDelete(rid, di)) /\ UNCHANGED <<call, imp>>

RecSaveChanges ==
    (\E rid \in 1..MaxRecIds, form \in FormInputs : SaveChanges(rid, form)) /\ UNCHANGED <<call, imp>>

NextRecords ==
    \/ RecSaveChanges
    \/ RecRenameModel
    \/ RecDeleteModel
    \/ RecSaveFinding
    \/ RecImportFile
    \/ RecSearch
    \/ RecConfirmDelete

SpecRecords == Init /\ [][NextRecords]_vars

\* C9: an id removed by delete_finding is absent ever after: no row of the
\* store and no row a cached history read returns carries it, whatever the
\* delete-images flag was.
C9_DeletedIdStaysAbsent ==
    \A id \in deleted :
        /\ id \notin {f.id : f \in findings}
        /\ \A key \in DOMAIN lf : id \notin Ids(lf[key])

C9_Witness ==
    \E id \in deleted : \E f \in findings : f.id > id

-----------------------------------------------------------------------------
(* SpecUpdate: findings saved and imported for one model, then edited by    *)
(* the edit form and by direct calls of update_finding                     *)

UpdFormInputs ==
    {[station |-> <<"x">>, capa_date |-> <<"1">>, reply_date |-> <<"2">>],
     [station |-> <<"a">>, capa_date |-> <<"x">>, reply_date |-> E]}

UpdPayloadInputs == {<<>>, [station |-> <<"x">>]}

UpdSaveFinding ==
    /\ seq < MaxUpdIds
    /\ SaveFinding(TxtA, <<"a">>, <<TRUE>>)
    /\ call' = [op |-> "insert"]
    /\ UNCHANGED imp

UpdImportFile ==
    /\ seq < MaxUpdIds
    /\ ImportFile(<<[model |-> TxtA, date |-> <<"0">>]>>, TRUE, TRUE)
    /\ call' = [op |-> "insert"]
    /\ UNCHANGED imp

UpdSearch == Search(TxtA, 0) /\ call' = [op |-> "search"] /\ UNCHANGED imp

UpdSaveChanges ==
    \E rid \in 1..MaxUpdIds, form \in UpdFormInputs :
        /\ SaveChanges(rid, form)
        /\ call' = [op |-> "update", fid |-> rid, payload |-> EditPayload(form, now)]
        /\ UNCHANGED imp

UpdDirectCall ==
    \E fid \in 1..MaxUpdIds, payload \in UpdPayloadInputs :
        /\ Commit(update_finding(State, fid, payload), last, deleted)
        /\ call' = [op |-> "update", fid |-> fid, payload |-> payload]
        /\ UNCHANGED imp

NextUpdate ==
    \/ UpdSaveFinding
    \/ UpdImportFile
    \/ UpdSearch
    \/ UpdSaveChanges
    \/ UpdDirectCall

SpecUpdate == Init /\ [][NextUpdate]_vars

Patched(f, payload) ==
    [c \in Columns |-> IF c \in DOMAIN payload THEN payload[c] ELSE f[c]]

\* C10: update_finding overwrites only the columns named in the patch: every
\* other column of that finding (id, created_at, model_no, the image list
\* among them) keeps its value, every other finding is unchanged, and an
\* empty patch changes nothing.
C10_SparsePatch ==
    [][call'.op = "update" =>
          /\ \A f \in findings :
                IF f.id = call'.fid THEN Patched(f, call'.payload) \in findings'
                ELSE f \in findings'
          /\ Cardinality(findings') = Cardinality(findings)
          /\ DOMAIN call'.payload = {} => findings' = findings]_vars

C10_Witness ==
    /\ call.op = "update"
    /\ DOMAIN call.payload # {}
    /\ "days_to_reply" \notin DOMAIN call.payload
    /\ \E f \in findings :
          /\ f.id = call.fid
          /\ f.days_to_reply # {}
          /\ f.image_path # EmptyPath
          /\ f.station = call.payload.station
          /\ \E g \in findings : g.id # f.id

-----------------------------------------------------------------------------
(* SpecImport: the Import expander - files uploaded, replaced and removed,  *)
(* the mapping selectboxes, the Import button - and the history search, at  *)
(* most MaxImpIds findings ever inserted                                    *)

MaxImpIds == 4

\* a CSV whose second row has a date that cannot be parsed
FileDates == [name |-> "dates.csv", readable |-> TRUE,
              rows |-> <<[model |-> TxtA, date |-> <<"0">>],
                         [model |-> TxtA, date |-> <<"x">>]>>]

\* an Excel sheet whose first row has a date cell
FileSheet == [name |-> "sheet.xlsx", readable |-> TRUE,
              rows |-> <<[model |-> TxtA, date |-> Timestamp(0)],
                         [model |-> TxtB, date |-> <<"0">>]>>]

FileOne == [name |-> "one.csv", readable |-> TRUE,
            rows |-> <<[model |-> TxtA, date |-> NaN]>>]

\* a file that pd.read_csv cannot decode
FileBad == [name |-> "bad.csv", readable |-> FALSE, rows |-> <<>>]

ImpFiles == {FileDates, FileSheet, FileOne, FileBad}

ImpUploadFile == (\E f \in ImpFiles : UploadFile(f)) /\ UNCHANGED call

ImpRemoveFile == RemoveFile /\ UNCHANGED call

ImpSelectRequired == (\E k \in RequiredFields : SelectRequired(k)) /\ UNCHANGED call

ImpSelectCreatedAt == SelectCreatedAt /\ UNCHANGED call

ImpImportClick ==
    /\ seq + Len(imp.file.rows) <= MaxImpIds
    /\ ImportClick
    /\ UNCHANGED call

ImpSearch ==
    /\ imp.file = NoFile \/ ControlsShown(imp)
    /\ \E q \in {E, TxtA} : Search(q, 0)
    /\ imp' = [imp EXCEPT !.report = {}]
    /\ UNCHANGED call

NextImport ==
    \/ ImpUploadFile
    \/ ImpRemoveFile
    \/ ImpSelectRequired
    \/ ImpSelectCreatedAt
    \/ ImpImportClick
    \/ ImpSearch

SpecImport == Init /\ [][NextImport]_vars

\* the step of the import flow the expander is at
FlowStep(I) ==
    IF ~ControlsShown(I) THEN "Idle"
    ELSE IF I.report # {} THEN "Imported"
    ELSE IF I.map = RequiredFields THEN "Mapped"
    ELSE "Loaded"

Rank(step) ==
    IF step = "Idle" THEN 0 ELSE IF step = "Loaded" THEN 1
    ELSE IF step = "Mapped" THEN 2 ELSE 3

\* C12: the import flow advances one step at a time, Idle -> Loaded -> Mapped
\* -> Imported: a file newly in the uploader starts at Loaded (or Idle), an
\* import writes findings only from a loaded file whose mapping is complete,
\* and removing the file returns the flow to Idle with no mapping left.
C12_ImportFlowInOrder ==
    [][/\ Rank(FlowStep(imp')) <= Rank(FlowStep(imp)) + 1
       /\ imp'.file # imp.file => FlowStep(imp') \in {"Idle", "Loaded"}
       /\ (ImportClick /\ findings' # findings) => FlowStep(imp) \in {"Mapped", "Imported"}
       /\ imp'.file = NoFile => (FlowStep(imp') = "Idle" /\ imp'.map = {})]_vars

\* C13: pressing Import while a required field is unmapped shows the mapping
\* error, inserts no finding and upserts no Model, and leaves the file loaded
\* and the mapping as it was, so the mapping can be completed and Import
\* pressed again.
C13_IncompleteMappingRejected ==
    [][(ImportClick /\ imp.map # RequiredFields) =>
          /\ last' = "Please map required fields"
          /\ findings' = findings
          /\ models' = models
          /\ imp' = imp
          /\ FlowStep(imp') = "Loaded"]_vars

C13_Witness ==
    /\ last = "Please map required fields"
    /\ ControlsShown(imp)
    /\ imp.file.rows # <<>>
    /\ imp.map # {}
    /\ imp.map # RequiredFields
    /\ findings = {}

\* the rows of the loaded file whose processing raises no exception and whose
\* model cell is not blank
RowsKept(I) ==
    {i \in 1..Len(I.file.rows) :
        /\ Strip(PyStr(I.file.rows[i].model)) # E
        /\ I.mc => ~IsTimestamp(I.file.rows[i].date)}

\* C14: in an import commit a row that raises is skipped and the commit goes
\* on: findings already stored stay, every row that does not raise adds its
\* finding, and the commit reports the number of rows imported (the number of
\* findings added) together with the total of rows seen, imported + skipped =
\* total.
C14_RowFailureSkipsAndCounts ==
    [][(ImportClick /\ imp.map = RequiredFields) =>
          /\ findings \subseteq findings'
          /\ Cardinality(findings' \ findings) = Cardinality(RowsKept(imp))
          /\ \E r \in imp'.report :
                /\ r.inserted = Cardinality(findings' \ findings)
                /\ {"total", "skipped"} \subseteq DOMAIN r
                /\ r.total = Len(imp.file.rows)
                /\ r.inserted + r.skipped = r.total]_vars

\* C15: in an import commit no row is half-written: each row either inserts
\* its finding, its Model being registered, or leaves the findings table and
\* the models table exactly as they were before that row was processed.
C15_NoHalfWrittenRow ==
    [][(ImportClick /\ imp.map = RequiredFields) =>
          \A i \in 1..Len(imp.file.rows) :
              LET rows == imp.file.rows
                  before == ImportRows(list_models(State), SubSeq(rows, 1, i - 1),
                                       imp.mc, now).s
                  after == ImportRow(before, rows[i], imp.mc, now).s
              IN  \/ /\ \E f \in after.findings \ before.findings :
                           f.model_no \in ModelNos(after.models)
                  \/ /\ after.findings = before.findings
                     /\ after.models = before.models]_vars

\* a date cell that holds a text which is no date
Unparseable(cell) == cell # NaN /\ Strip(CellStr(cell)) # E /\ ~to_datetime_ok(cell)

\* C16: an import commit with created_at mapped skips the row whose date
\* cannot be parsed and imports every other row: N rows of which exactly one
\* has an unparseable date add N-1 findings and report a skip count of 1.
C16_UnparseableDateSkipped ==
    [][(/\ ImportClick
        /\ imp.map = RequiredFields
        /\ imp.mc
        /\ RowsKept(imp) = 1..Len(imp.file.rows)
        /\ Cardinality({i \in 1..Len(imp.file.rows) :
                           Unparseable(imp.file.rows[i].date)}) = 1) =>
          /\ Cardinality(findings' \ findings) = Len(imp.file.rows) - 1
          /\ \E r \in imp'.report : "skipped" \in DOMAIN r /\ r.skipped = 1]_vars

\* C17: pressing Import again for the file and mapping that were just
\* imported leaves the findings table as it was after the first commit: no
\* duplicate finding is added.
C17_ImportIdempotent ==
    [][(ImportClick /\ FlowStep(imp) = "Imported") => findings' = findings]_vars

\* C18: loading a file that cannot be read ends in an error, leaves the
\* findings table and the models table unchanged, and does not advance the
\* import flow: no mapping or Import control is offered for that file.
C18_UnreadableFileChangesNothing ==
    [][(imp'.file # imp.file /\ ~imp'.file.readable) =>
          /\ last' = "exception"
          /\ findings' = findings
          /\ models' = models
          /\ ~ControlsShown(imp')
          /\ Rank(FlowStep(imp')) <= Rank(FlowStep(imp))]_vars

C18_Witness ==
    /\ last = "exception"
    /\ imp.file = FileBad
    /\ findings # {}
    /\ models # {}

-----------------------------------------------------------------------------
(* SpecSearch: findings of one model, saved now and imported with dates     *)
(* before, at and after now, with no date and with a text that is no date,  *)
(* searched with "All" and with the days filter; at most MaxSchIds findings *)

MaxSchIds == 3

SchDateInputs == {NaN, <<"0">>, <<"2">>, <<"x">>}

SchDaysInputs == {0, 1}

SchSaveFinding ==
    /\ seq < MaxSchIds
    /\ SaveFinding(TxtA, <<"a">>, <<TRUE>>)
    /\ UNCHANGED <<call, imp>>

SchImportFile ==
    /\ seq < MaxSchIds
    /\ \E d \in SchDateInputs : ImportFile(<<[model |-> TxtA, date |-> d]>>, TRUE, TRUE)
    /\ UNCHANGED <<call, imp>>

SchSearch ==
    (\E q \in {E, TxtA}, d \in SchDaysInputs : Search(q, d)) /\ UNCHANGED <<call, imp>>

NextSearch ==
    \/ SchSaveFinding
    \/ SchImportFile
    \/ SchSearch

SpecSearch == Init /\ [][NextSearch]_vars

\* the findings of model_no dated within [from, to]
InRange(F, model_no, from, to) ==
    {f \in F : /\ f.model_no = model_no
               /\ IsIso(f.created_at)
               /\ from <= fromisoformat(f.created_at)
               /\ fromisoformat(f.created_at) <= to}

\* C19: a search over a date range returns exactly the records dated within
\* the range, both bounds included, and the undated records only when they
\* are asked for: the days filter d, the range [now - d, now] without the
\* undated, returns exactly the findings dated in it, and "All" returns every
\* finding of the model.
C19_DateRangeExact ==
    \A key \in DOMAIN lf :
        Ids(lf[key]) =
            IF key[2] = 0 THEN {f.id : f \in {g \in findings : g.model_no = key[1]}}
            ELSE {f.id : f \in InRange(findings, key[1], now - key[2], now)}

StrictlyDescending(rows) ==
    \A i \in 1..Len(rows), j \in 1..Len(rows) : i < j => rows[i].id > rows[j].id

\* C20: a search returns the records it matched ordered newest-first,
\* strictly descending by id, and the station filter of the view keeps
\* exactly the matching rows in that order.
C20_NewestFirst ==
    \A key \in DOMAIN lf :
        /\ StrictlyDescending(lf[key])
        /\ \A opt \in StationOptions(lf[key]) :
              LET view == ViewFilter(lf[key], opt)
              IN  /\ StrictlyDescending(view)
                  /\ Ids(view) = {lf[key][i].id : i \in {j \in 1..Len(lf[key]) :
                                     opt = All \/ lf[key][j].station = opt}}

C20_Witness ==
    \E key \in DOMAIN lf :
        /\ Len(lf[key]) >= 3
        /\ \E opt \in StationOptions(lf[key]) \ {All} :
              /\ Len(ViewFilter(lf[key], opt)) = 2
              /\ lf[key][2].station # opt

-----------------------------------------------------------------------------
(* SpecRename: models and findings of two model numbers, and the Rename    *)
(* button with each statement of rename_model's transaction able to raise  *)
(* and the directory move able to fail; at most MaxRenIds findings         *)

MaxRenIds == 2

RenModelInputs == {TxtA, TxtB}

RenFailInputs == 0..3

RenSaveModel ==
    /\ \E m \in RenModelInputs, a \in AttrInputs : SaveModel(m, a)
    /\ call' = [op |-> "upsert"]
    /\ UNCHANGED imp

RenSaveFinding ==
    /\ seq < MaxRenIds
    /\ \E m \in RenModelInputs : SaveFinding(m, <<"a">>, <<TRUE>>)
    /\ call' = [op |-> "insert"]
    /\ UNCHANGED imp

RenSearch ==
    /\ \E q \in RenModelInputs : Search(q, 0)
    /\ call' = [op |-> "search"]
    /\ UNCHANGED imp

RenRenameModel ==
    /\ \E n \in RenModelInputs, ok \in BOOLEAN, k \in RenFailInputs :
          /\ RenameModelTx(n, ok, k)
          /\ call' = [op |-> "rename", new_no |-> n, move_ok |-> ok, fail_at |-> k]
    /\ UNCHANGED imp

NextRename ==
    \/ RenSaveModel
    \/ RenSaveFinding
    \/ RenSearch
    \/ RenRenameModel

SpecRename == Init /\ [][NextRename]_vars

\* C21: rename_model applies its database changes (write the new Model row,
\* repoint every finding of old_no, delete the old Model row) all or not at
\* all, and before the directory move: when a statement raises nothing is
\* written and no directory is moved; when none raises the rename succeeds
\* with all three changes whether or not the move succeeds; the findings
\* that pointed to old_no never end up split between old_no and new_no.
C21_RenameAllOrNothing ==
    [][call'.op = "rename" =>
          LET old_no == Strip(search_model)
              new_no == Strip(call'.new_no)
              k == call'.fail_at
              olds == {r \in models : r.model_no = old_no}
              row == CHOOSE r \in olds : TRUE
              ids == {f.id : f \in {g \in findings : g.model_no = old_no}}
              AppliedModels ==
                  {r \in models : r.model_no \notin {old_no, new_no}}
                     \cup {ModelRow(new_no, row.name, row.customer, row.bucket)}
              AppliedFindings ==
                  {IF f.id \in ids THEN [f EXCEPT !.model_no = new_no] ELSE f
                     : f \in findings}
              Applied == models' = AppliedModels /\ findings' = AppliedFindings
              Nothing == models' = models /\ findings' = findings
              after == {f \in findings' : f.id \in ids}
          IN  (new_no # E /\ new_no # old_no /\ olds # {}) =>
                 /\ Applied \/ Nothing
                 /\ k = 0 => Applied /\ last' = "Renamed"
                 /\ k # 0 => Nothing /\ dirs' = dirs /\ files' = files
                 /\ \/ \A f \in after : f.model_no = old_no
                    \/ \A f \in after : f.model_no = new_no
    ]_vars

\* two findings of A repointed to B by a rename whose directory move failed
C21_Witness ==
    /\ call.op = "rename" /\ ~call.move_ok
    /\ last = "Renamed"
    /\ search_model = TxtB
    /\ Cardinality({f \in findings : f.model_no = TxtB}) = 2
    /\ TxtA \notin ModelNos(models)
    /\ TxtA \in dirs /\ TxtB \notin dirs

====
